---------------------------- MODULE Spec2Model ----------------------------
(***************************************************************************)
(* Model of the email-analysis pipeline: the extraction handler            *)
(* (src/lambda/email_parser), the summarization handler                    *)
(* (src/lambda/analyze_emails) and the notification handler                *)
(* (src/lambda/slack_notification).                                        *)
(*                                                                         *)
(* Python values are modelled structurally:                                *)
(*   a str is a sequence of chunks: Ch(c) a piece of raw text, N(n) a      *)
(*   decimal numeral, Q(s) a JSON string literal whose decoded content is  *)
(*   the str s, Tag(t) an HTML tag;                                        *)
(*   a JSON value is PyStr, PyInt, PyNone, PyBool, PyList or PyDict (an    *)
(*   insertion-ordered sequence of <<key, value>> pairs);                  *)
(*   a call that may raise returns [exc |-> name, ...] with exc = "none"   *)
(*   for a normal return.                                                  *)
(***************************************************************************)
EXTENDS Integers, Sequences, FiniteSets, TLC

VARIABLES
    bucket,     \* the S3 bucket: a set of objects [key, body]
    parser,     \* last invocation of the extraction handler
    model,      \* what the language model returned to the summarization handler
    analyze,    \* last invocation of the summarization handler
    topic,      \* SNS messages published and not yet delivered
    notify,     \* last invocation of the notification handler
    slack       \* payloads posted to the Slack webhook

vars == <<bucket, parser, model, analyze, topic, notify, slack>>

---------------------------------------------------------------------------
(* Text and JSON values *)

Ch(c) == [ch |-> c]
N(n) == [n |-> n]
Q(s) == [q |-> s]
Tag(t) == [tag |-> t]
Str(c) == <<Ch(c)>>

IsCh(t, c) == "ch" \in DOMAIN t /\ t.ch = c

PyStr(s) == [str |-> s]
PyInt(n) == [int |-> n]
PyNone == [none |-> TRUE]
PyBool(b) == [bool |-> b]
PyList(xs) == [list |-> xs]
PyDict(items) == [dict |-> items]

IsDict(v) == "dict" \in DOMAIN v
IsList(v) == "list" \in DOMAIN v
IsStr(v) == "str" \in DOMAIN v

DictHas(items, k) == \E i \in 1..Len(items) : items[i][1] = k
DictGet(items, k) == items[CHOOSE i \in 1..Len(items) : items[i][1] = k][2]
\* d[k] = v on a Python dict: a present key keeps its position
DictSet(items, k, v) ==
    IF DictHas(items, k)
    THEN [i \in 1..Len(items) |->
            IF items[i][1] = k THEN <<k, v>> ELSE items[i]]
    ELSE Append(items, <<k, v>>)

RECURSIVE json_dumps(_)
RECURSIVE DumpList(_, _)
RECURSIVE DumpItems(_, _)

\* the elements of a list from index i on, comma separated
DumpList(xs, i) ==
    IF i > Len(xs) THEN <<>>
    ELSE (IF i > 1 THEN Str(",") ELSE <<>>) \o json_dumps(xs[i]) \o DumpList(xs, i + 1)

\* the members of a dict from index i on, comma separated
DumpItems(items, i) ==
    IF i > Len(items) THEN <<>>
    ELSE (IF i > 1 THEN Str(",") ELSE <<>>)
         \o <<Q(items[i][1])>> \o Str(":") \o json_dumps(items[i][2])
         \o DumpItems(items, i + 1)

\* json.dumps: the JSON text of a value (whitespace left out)
json_dumps(v) ==
    IF "str" \in DOMAIN v THEN <<Q(v.str)>>
    ELSE IF "int" \in DOMAIN v THEN <<N(v.int)>>
    ELSE IF "none" \in DOMAIN v THEN Str("null")
    ELSE IF "bool" \in DOMAIN v THEN (IF v.bool THEN Str("true") ELSE Str("false"))
    ELSE IF "list" \in DOMAIN v THEN Str("[") \o DumpList(v.list, 1) \o Str("]")
    ELSE Str("{") \o DumpItems(v.dict, 1) \o Str("}")

ParseError == [ok |-> FALSE]
Parsed(v, i) == [ok |-> TRUE, val |-> v, next |-> i]

RECURSIVE ParseValue(_, _)
RECURSIVE ParseElements(_, _, _)
RECURSIVE ParseMembers(_, _, _)

\* after "[" or ",": a value, then "," or "]"
ParseElements(t, i, acc) ==
    LET e == ParseValue(t, i) IN
    IF ~e.ok THEN ParseError
    ELSE IF e.next > Len(t) THEN ParseError
    ELSE IF IsCh(t[e.next], ",") THEN ParseElements(t, e.next + 1, Append(acc, e.val))
    ELSE IF IsCh(t[e.next], "]") THEN Parsed(PyList(Append(acc, e.val)), e.next + 1)
    ELSE ParseError

\* after "{" or ",": a string key, ":", a value, then "," or "}"
ParseMembers(t, i, acc) ==
    IF i + 1 > Len(t) THEN ParseError
    ELSE IF ~("q" \in DOMAIN t[i]) THEN ParseError
    ELSE IF ~IsCh(t[i + 1], ":") THEN ParseError
    ELSE LET e == ParseValue(t, i + 2) IN
         IF ~e.ok THEN ParseError
         ELSE IF e.next > Len(t) THEN ParseError
         ELSE IF IsCh(t[e.next], ",")
              THEN ParseMembers(t, e.next + 1, DictSet(acc, t[i].q, e.val))
         ELSE IF IsCh(t[e.next], "}")
              THEN Parsed(PyDict(DictSet(acc, t[i].q, e.val)), e.next + 1)
         ELSE ParseError

\* one JSON value starting at index i
ParseValue(t, i) ==
    IF i > Len(t) THEN ParseError
    ELSE LET c == t[i] IN
         IF "q" \in DOMAIN c THEN Parsed(PyStr(c.q), i + 1)
         ELSE IF "n" \in DOMAIN c THEN Parsed(PyInt(c.n), i + 1)
         ELSE IF IsCh(c, "null") THEN Parsed(PyNone, i + 1)
         ELSE IF IsCh(c, "true") THEN Parsed(PyBool(TRUE), i + 1)
         ELSE IF IsCh(c, "false") THEN Parsed(PyBool(FALSE), i + 1)
         ELSE IF IsCh(c, "[")
              THEN IF i + 1 <= Len(t) /\ IsCh(t[i + 1], "]")
                   THEN Parsed(PyList(<<>>), i + 2)
                   ELSE ParseElements(t, i + 1, <<>>)
         ELSE IF IsCh(c, "{")
              THEN IF i + 1 <= Len(t) /\ IsCh(t[i + 1], "}")
                   THEN Parsed(PyDict(<<>>), i + 2)
                   ELSE ParseMembers(t, i + 1, <<>>)
         ELSE ParseError

\* json.loads: the value of a JSON text, or JSONDecodeError (also for
\* text left over after the value)
json_loads(t) ==
    LET r == ParseValue(t, 1) IN
    IF r.ok /\ r.next = Len(t) + 1
    THEN [exc |-> "none", val |-> r.val]
    ELSE [exc |-> "JSONDecodeError"]

---------------------------------------------------------------------------
(* Configuration, dates and object keys *)

\* the message ids SES assigns
MessageIds == {"a", "b", "c"}

raw_email_path == <<Ch("raw_emails"), Ch("/")>>
json_email_path == <<Ch("json_emails"), Ch("/")>>
\* TIMEZONE, as its UTC offset in hours
timezone == 9

DaysInMonth(y, m) ==
    IF m = 2 THEN (IF y % 4 = 0 /\ (y % 100 # 0 \/ y % 400 = 0) THEN 29 ELSE 28)
    ELSE IF m \in {4, 6, 9, 11} THEN 30 ELSE 31

NextDay(d) ==
    IF d.day < DaysInMonth(d.year, d.month) THEN [d EXCEPT !.day = @ + 1]
    ELSE IF d.month < 12 THEN [d EXCEPT !.day = 1, !.month = @ + 1]
    ELSE [d EXCEPT !.day = 1, !.month = 1, !.year = @ + 1]

PrevDay(d) ==
    IF d.day > 1 THEN [d EXCEPT !.day = @ - 1]
    ELSE IF d.month > 1
         THEN [d EXCEPT !.day = DaysInMonth(d.year, d.month - 1), !.month = @ - 1]
    ELSE [d EXCEPT !.day = 31, !.month = 12, !.year = @ - 1]

\* datetime.astimezone: the same instant at UTC offset tz
astimezone(d, tz) ==
    LET h == d.hour + (tz - d.offset)
        moved == IF h >= 24 THEN NextDay(d) ELSE IF h < 0 THEN PrevDay(d) ELSE d
    IN [moved EXCEPT !.hour = h % 24, !.offset = tz]

RECURSIVE Digits(_)
\* the decimal digits of a natural number, as f"{n}" writes them
Digits(n) ==
    LET digit == <<"0", "1", "2", "3", "4", "5", "6", "7", "8", "9">> IN
    IF n < 10 THEN <<Ch(digit[n + 1])>>
    ELSE Digits(n \div 10) \o <<Ch(digit[(n % 10) + 1])>>

RECURSIVE Path(_)
\* str(Path(s)): repeated and trailing slashes dropped
Path(s) ==
    IF s = <<>> THEN <<>>
    ELSE IF IsCh(s[Len(s)], "/") THEN Path(SubSeq(s, 1, Len(s) - 1))
    ELSE LET head == Path(SubSeq(s, 1, Len(s) - 1)) IN
         IF Len(s) > 1 /\ IsCh(s[Len(s) - 1], "/")
         THEN head \o Str("/") \o <<s[Len(s)]>>
         ELSE head \o <<s[Len(s)]>>

\* datetime.isoformat of an aware datetime on the hour
isoformat(d) ==
    <<N(d.year), Ch("-"), N(d.month), Ch("-"), N(d.day), Ch("T"), N(d.hour),
      Ch(":00:00"), Ch(IF d.offset >= 0 THEN "+" ELSE "-"),
      N(IF d.offset >= 0 THEN d.offset ELSE -d.offset), Ch(":00")>>

\* datetime.fromisoformat: ValueError unless the text has isoformat's shape
fromisoformat(s) ==
    IF /\ Len(s) = 11
       /\ \A i \in {1, 3, 5, 7, 10} : "n" \in DOMAIN s[i]
       /\ IsCh(s[2], "-") /\ IsCh(s[4], "-") /\ IsCh(s[6], "T")
       /\ IsCh(s[8], ":00:00") /\ IsCh(s[11], ":00")
       /\ (IsCh(s[9], "+") \/ IsCh(s[9], "-"))
       /\ s[3].n \in 1..12 /\ s[5].n \in 1..DaysInMonth(s[1].n, s[3].n)
       /\ s[7].n \in 0..23
    THEN [exc |-> "none",
          val |-> [year |-> s[1].n, month |-> s[3].n, day |-> s[5].n,
                   hour |-> s[7].n,
                   offset |-> IF IsCh(s[9], "+") THEN s[10].n ELSE -s[10].n]]
    ELSE [exc |-> "ValueError"]

---------------------------------------------------------------------------
(* The bucket *)

IsPrefix(p, s) == Len(p) <= Len(s) /\ SubSeq(s, 1, Len(p)) = p

\* byte order of the characters keys are made of
CharRank(c) ==
    CASE IsCh(c, ".json") -> 0
      [] IsCh(c, "/") -> 1
      [] IsCh(c, "0") -> 2 [] IsCh(c, "1") -> 3 [] IsCh(c, "2") -> 4
      [] IsCh(c, "3") -> 5 [] IsCh(c, "4") -> 6 [] IsCh(c, "5") -> 7
      [] IsCh(c, "6") -> 8 [] IsCh(c, "7") -> 9 [] IsCh(c, "8") -> 10
      [] IsCh(c, "9") -> 11
      [] IsCh(c, "a") -> 12 [] IsCh(c, "b") -> 13 [] IsCh(c, "c") -> 14
      [] OTHER -> 15

RECURSIVE KeyLess(_, _)
\* lexicographic order of keys, the order S3 lists them in
KeyLess(k1, k2) ==
    IF k1 = <<>> THEN k2 # <<>>
    ELSE IF k2 = <<>> THEN FALSE
    ELSE IF CharRank(k1[1]) # CharRank(k2[1]) THEN CharRank(k1[1]) < CharRank(k2[1])
    ELSE KeyLess(Tail(k1), Tail(k2))

\* the number of keys one list_objects_v2 call returns at most (S3: 1000)
MaxKeys == 2

\* s3.list_objects_v2(Bucket, Prefix): the first MaxKeys keys under the
\* prefix in key order; "Contents" is left out when no key matches, and
\* IsTruncated with a continuation token tells that more keys follow
list_objects_v2(objects, prefix) ==
    LET keys == {o.key : o \in objects}
        matching == {k \in keys : IsPrefix(prefix, k)}
        before(k) == Cardinality({j \in matching : KeyLess(j, k)})
        page == {k \in matching : before(k) < MaxKeys}
        Contents == [i \in 1..Cardinality(page) |->
                        CHOOSE k \in page : before(k) = i - 1]
    IN IF matching = {}
       THEN [KeyCount |-> 0, IsTruncated |-> FALSE]
       ELSE IF Cardinality(matching) > MaxKeys
       THEN [KeyCount |-> Cardinality(page), IsTruncated |-> TRUE, Contents |-> Contents,
             NextContinuationToken |-> Contents[Len(Contents)]]
       ELSE [KeyCount |-> Cardinality(page), IsTruncated |-> FALSE, Contents |-> Contents]

\* s3.get_object(Bucket, Key): the body of the object
get_object(objects, key) == (CHOOSE o \in objects : o.key = key).body

\* s3.put_object(Bucket, Key, Body): the object replaces one of the same key
put_object(objects, key, body) ==
    {o \in objects : o.key # key} \cup {[key |-> key, body |-> body]}

---------------------------------------------------------------------------
(* The extraction handler: src/lambda/email_parser/index.py *)

\* HTMLStripper: handle_data collects the text nodes, get_data joins them
strip_html(html) == SelectSeq(html, LAMBDA c : ~("tag" \in DOMAIN c))

\* payload.decode(charset): get_content_charset() is None for a part whose
\* Content-Type names no charset, and bytes.decode(None) raises TypeError
decode(part) ==
    IF part.charset = "none" THEN [exc |-> "TypeError"]
    ELSE [exc |-> "none", val |-> part.payload]

\* message.is_multipart(): the payload is a list of parts
is_multipart(message) == message.ctype \in {"multipart/mixed", "multipart/alternative",
                                             "multipart/related"}

RECURSIVE ScanParts(_, _, _)
\* the loop over message.iter_parts(), from part i with the body found so far:
\* text/plain ends the loop, text/html overwrites the body and goes on
ScanParts(parts, i, body) ==
    IF i > Len(parts) THEN [exc |-> "none", val |-> body]
    ELSE IF parts[i].ctype = "text/plain"
         THEN decode(parts[i])
    ELSE IF parts[i].ctype = "text/html"
         THEN LET d == decode(parts[i]) IN
              IF d.exc # "none" THEN d
              ELSE ScanParts(parts, i + 1, strip_html(d.val))
    ELSE ScanParts(parts, i + 1, body)

NoBody == <<Ch("<None>")>>

\* EmailParser._get_email_body
_get_email_body(message) ==
    LET found ==
            IF is_multipart(message) THEN ScanParts(message.parts, 1, NoBody)
            ELSE IF message.ctype = "text/plain" THEN decode(message)
            ELSE IF message.ctype = "text/html"
                 THEN LET d == decode(message) IN
                      IF d.exc # "none" THEN d
                      ELSE [exc |-> "none", val |-> strip_html(d.val)]
            ELSE [exc |-> "none", val |-> NoBody]
    IN IF found.exc # "none" THEN found
       ELSE IF found.val = NoBody THEN [exc |-> "ValueError"]
       ELSE found

\* EmailParser._get_email_date: parsedate_to_datetime raises for an absent or
\* unparsable Date header
_get_email_date(message, tz) ==
    IF "year" \in DOMAIN message.date
    THEN [exc |-> "none", val |-> astimezone(message.date, tz)]
    ELSE [exc |-> "ValueError"]

\* the key SES stores the raw message of an id under
raw_key(id) == Path(raw_email_path \o Str("/") \o Str(id))

\* EmailParser.read_email: the raw object parsed into an Email; the date is
\* evaluated before the body
read_email(objects, email_id, tz) ==
    LET message == get_object(objects, raw_key(email_id))
        date == _get_email_date(message, tz)
        body == _get_email_body(message)
    IN IF date.exc # "none" THEN date
       ELSE IF body.exc # "none" THEN body
       ELSE [exc |-> "none",
             val |-> [id |-> Str(email_id), subject |-> message.subject,
                      from_ |-> message.from_, date |-> date.val, body |-> body.val]]

\* the key write_email stores an Email under
email_key(email) ==
    Path(json_email_path \o Str("/") \o Digits(email.date.year) \o Str("/")
         \o Digits(email.date.month) \o Str("/") \o Digits(email.date.day) \o Str("/")
         \o email.id \o Str(".json"))

\* the JSON document write_email stores
email_json(email) ==
    json_dumps(PyDict(<< <<Str("id"), PyStr(email.id)>>,
                         <<Str("subject"), email.subject>>,
                         <<Str("from"), email.from_>>,
                         <<Str("date"), PyStr(isoformat(email.date))>>,
                         <<Str("body"), PyStr(email.body)>> >>))

\* EmailParser.write_email
write_email(objects, email) == put_object(objects, email_key(email), email_json(email))

RECURSIVE ParseRecords(_, _, _, _)
\* the loop of lambda_handler over event.records, from record i with the
\* ids written so far: an exception of read_email ends the invocation
ParseRecords(objects, records, i, written) ==
    IF i > Len(records)
    THEN [status |-> "returned", exc |-> "none", objects |-> objects, written |-> written]
    ELSE LET email == read_email(objects, records[i], timezone) IN
         IF email.exc # "none"
         THEN [status |-> "raised", exc |-> email.exc, objects |-> objects,
               written |-> written]
         ELSE ParseRecords(write_email(objects, email.val), records, i + 1,
                           Append(written, records[i]))

---------------------------------------------------------------------------
(* The summarization handler: src/lambda/analyze_emails/index.py *)

\* v[k] on a parsed JSON value: KeyError for a dict without the key,
\* TypeError for a value that is no dict
Subscript(v, k) ==
    IF IsDict(v)
    THEN IF DictHas(v.dict, k) THEN [exc |-> "none", val |-> DictGet(v.dict, k)]
         ELSE [exc |-> "KeyError"]
    ELSE [exc |-> "TypeError"]

\* the first exception among calls made in order, "none" when all returned
FirstExc(calls) ==
    IF \E i \in 1..Len(calls) : calls[i].exc # "none"
    THEN calls[CHOOSE i \in 1..Len(calls) :
                 /\ calls[i].exc # "none"
                 /\ \A j \in 1..(i - 1) : calls[j].exc = "none"].exc
    ELSE "none"

\* Email(...) from the JSON document of a stored object
email_from_json(body) ==
    LET doc == json_loads(body) IN
    IF doc.exc # "none" THEN doc
    ELSE LET id == Subscript(doc.val, Str("id"))
             subject == Subscript(doc.val, Str("subject"))
             from_ == Subscript(doc.val, Str("from"))
             date == Subscript(doc.val, Str("date"))
             when == IF date.exc # "none" THEN date
                     ELSE IF ~IsStr(date.val) THEN [exc |-> "TypeError"]
                     ELSE fromisoformat(date.val.str)
             text == Subscript(doc.val, Str("body"))
             exc == FirstExc(<<id, subject, from_, when, text>>)
         IN IF exc # "none" THEN [exc |-> exc]
            ELSE [exc |-> "none",
                  val |-> [id |-> id.val, subject |-> subject.val, from_ |-> from_.val,
                           date |-> when.val, body |-> text.val]]

RECURSIVE ReadListed(_, _, _, _)
\* the loop of get_emails over list_response["Contents"]
ReadListed(objects, contents, i, emails) ==
    IF i > Len(contents) THEN [exc |-> "none", val |-> emails]
    ELSE LET email == email_from_json(get_object(objects, contents[i])) IN
         IF email.exc # "none" THEN email
         ELSE ReadListed(objects, contents, i + 1, Append(emails, email.val))

\* get_emails: one list_objects_v2 call, then every listed object read
get_emails(objects, path) ==
    LET list_response == list_objects_v2(objects, path) IN
    IF "Contents" \in DOMAIN list_response
    THEN ReadListed(objects, list_response.Contents, 1, <<>>)
    ELSE [exc |-> "KeyError"]

\* generate_user_prompt: the template rendered over the emails
generate_user_prompt(emails) == [template |-> "prompt.jinja2", emails |-> emails]

Message(success, emails, error) == [success |-> success, emails |-> emails, error |-> error]

RECURSIVE Summaries_reversed(_, _, _)
\* Summaries with each summary put before the ones built so far
Summaries_reversed(elements, i, acc) ==
    IF i > Len(elements) THEN [exc |-> "none", val |-> acc]
    ELSE LET subject == Subscript(elements[i], Str("subject"))
             date == Subscript(elements[i], Str("date"))
             from_ == Subscript(elements[i], Str("from"))
             summary == Subscript(elements[i], Str("summary"))
             exc == FirstExc(<<subject, date, from_, summary>>)
         IN IF exc # "none" THEN [exc |-> exc]
            ELSE Summaries_reversed(elements, i + 1,
                           <<[subject |-> subject.val, date |-> date.val,
                              from_ |-> from_.val, summary |-> summary.val]>> \o acc)

RECURSIVE Summaries(_, _, _)
\* the list comprehension of request_message over the parsed response, from
\* element i: the four subscripts are evaluated in order
Summaries(elements, i, acc) ==
    IF i > Len(elements) THEN [exc |-> "none", val |-> acc]
    ELSE LET subject == Subscript(elements[i], Str("subject"))
             date == Subscript(elements[i], Str("date"))
             from_ == Subscript(elements[i], Str("from"))
             summary == Subscript(elements[i], Str("summary"))
             exc == FirstExc(<<subject, date, from_, summary>>)
         IN IF exc # "none" THEN [exc |-> exc]
            ELSE Summaries(elements, i + 1,
                           Append(acc, [subject |-> subject.val, date |-> date.val,
                                        from_ |-> from_.val, summary |-> summary.val]))

\* the exceptions the except clause of request_message names
Caught == {"JSONDecodeError", "KeyError"}

\* request_message: the model is called once with the prompt and the "["
\* prefix, and completion is the text it returns
request_message(prompt, completion) ==
    LET response_text == Str("[") \o completion
        parsed == json_loads(response_text)
        summaries == IF parsed.exc # "none" THEN parsed
                     ELSE Summaries(parsed.val.list, 1, <<>>)
    IN IF summaries.exc = "none"
       THEN [exc |-> "none", response_text |-> response_text,
             val |-> Message(TRUE, summaries.val, PyNone)]
       ELSE IF summaries.exc \in Caught
       THEN [exc |-> "none", response_text |-> response_text,
             val |-> Message(FALSE, <<>>,
                             PyStr(Str("Failed to parse response: ") \o response_text))]
       ELSE [exc |-> summaries.exc, response_text |-> response_text]

\* dataclasses.asdict of an EmailSummary
summary_asdict(email) ==
    PyDict(<< <<Str("subject"), email.subject>>, <<Str("date"), email.date>>,
              <<Str("from_"), email.from_>>, <<Str("summary"), email.summary>> >>)

\* asdict writing every field of the dataclass, whatever the tag
asdict_every_field(message) ==
    PyDict(<< <<Str("success"), PyBool(message.success)>>,
              <<Str("emails"),
                PyList([i \in 1..Len(message.emails) |->
                           summary_asdict(message.emails[i])])>>,
              <<Str("error"), message.error>> >>)

\* Message.asdict
asdict(message) ==
    IF message.success
    THEN PyDict(<< <<Str("success"), PyBool(message.success)>>,
                   <<Str("emails"),
                     PyList([i \in 1..Len(message.emails) |->
                                summary_asdict(message.emails[i])])>> >>)
    ELSE PyDict(<< <<Str("success"), PyBool(message.success)>>,
                   <<Str("error"), message.error>> >>)

\* send_to_topic: the SNS message published
send_to_topic(message) == json_dumps(asdict(message))

\* the prefix lambda_handler lists: the override, or yesterday's partition
day_path(event) ==
    IF "path_override" \in DOMAIN event THEN event.path_override
    ELSE LET target == PrevDay(event.now) IN
         Path(json_email_path \o Str("/") \o Digits(target.year) \o Str("/")
              \o Digits(target.month) \o Str("/") \o Digits(target.day)) \o Str("/")

NoMessage == [none |-> TRUE]

\* what one invocation of the summarization handler did
AnalyzeRun(status, exc, path, emails, calls, text, message, published) ==
    [status |-> status, exc |-> exc, path |-> path, emails |-> emails,
     model_calls |-> calls, response_text |-> text, message |-> message,
     published |-> published]

\* publish_outcome without the check for a Success without emails
publish_outcome_always(path, emails, result) ==
    IF result.exc # "none"
    THEN AnalyzeRun("raised", result.exc, path, emails, 1, result.response_text,
                    NoMessage, <<>>)
    ELSE AnalyzeRun("returned", "none", path, emails, 1, result.response_text,
                    result.val, <<send_to_topic(result.val)>>)

\* lambda_handler of analyze_emails after request_message: a Success
\* without emails is not published, any other message is
publish_outcome(path, emails, result) ==
    IF result.exc # "none"
    THEN AnalyzeRun("raised", result.exc, path, emails, 1, result.response_text,
                    NoMessage, <<>>)
    ELSE IF result.val.success /\ result.val.emails = <<>>
    THEN AnalyzeRun("returned", "none", path, emails, 1, result.response_text,
                    result.val, <<>>)
    ELSE AnalyzeRun("returned", "none", path, emails, 1, result.response_text,
                    result.val, <<send_to_topic(result.val)>>)

\* lambda_handler of analyze_emails after get_emails: no emails, no model call
summarize_emails(path, emails, completion) ==
    IF emails.exc # "none"
    THEN AnalyzeRun("raised", emails.exc, path, <<>>, 0, <<>>, NoMessage, <<>>)
    ELSE IF emails.val = <<>>
    THEN AnalyzeRun("returned", "none", path, <<>>, 0, <<>>, NoMessage, <<>>)
    ELSE publish_outcome(path, emails.val,
                         request_message(generate_user_prompt(emails.val), completion))

\* lambda_handler of analyze_emails: what one invocation does
analyze_handler(objects, event, completion) ==
    summarize_emails(day_path(event), get_emails(objects, day_path(event)), completion)

---------------------------------------------------------------------------
(* The notification handler: src/lambda/slack_notification/index.py *)

\* d.get(k, default) on a dict
DictGetOr(v, k, default) == IF DictHas(v.dict, k) THEN DictGet(v.dict, k) ELSE default

SummaryFields == {Str("subject"), Str("date"), Str("from_"), Str("summary")}

\* EmailSummary(**email): TypeError unless email is a mapping with exactly
\* the four field names
summary_from_dict(email) ==
    IF IsDict(email) /\ {email.dict[i][1] : i \in 1..Len(email.dict)} = SummaryFields
    THEN [exc |-> "none",
          val |-> [subject |-> DictGet(email.dict, Str("subject")),
                   date |-> DictGet(email.dict, Str("date")),
                   from_ |-> DictGet(email.dict, Str("from_")),
                   summary |-> DictGet(email.dict, Str("summary"))]]
    ELSE [exc |-> "TypeError"]

\* Message.from_dict
from_dict(d) ==
    LET success == Subscript(d, Str("success")) IN
    IF success.exc # "none" THEN success
    ELSE LET listed == DictGetOr(d, Str("emails"), PyList(<<>>))
             emails == IF IsList(listed)
                       THEN [i \in 1..Len(listed.list) |-> summary_from_dict(listed.list[i])]
                       ELSE <<[exc |-> "TypeError"]>>
             exc == FirstExc(emails)
         IN IF exc # "none" THEN [exc |-> exc]
            ELSE [exc |-> "none",
                  val |-> Message(success.val,
                                  [i \in 1..Len(emails) |-> emails[i].val],
                                  DictGetOr(d, Str("error"), PyNone))]

\* f"{value}": a str is written as it is, any other value by its repr
Format(v) == IF IsStr(v) THEN v.str ELSE <<[repr |-> v]>>

\* datetime.fromisoformat(date).strftime("%Y/%m/%d %H:%M")
format_date(date) ==
    IF ~IsStr(date) THEN [exc |-> "TypeError"]
    ELSE LET when == fromisoformat(date.str) IN
         IF when.exc # "none" THEN when
         ELSE [exc |-> "none",
               val |-> <<N(when.val.year), Ch("/"), N(when.val.month), Ch("/"),
                         N(when.val.day), Ch(" "), N(when.val.hour), Ch(":00")>>]

\* the fixed first block (its Japanese text stands as one chunk)
Header == [type |-> "section", mrkdwn |-> Str(":email: new mail found")]

RECURSIVE ItemBlocks(_, _, _)
\* the loop of generate_payload over the emails, from email i
ItemBlocks(emails, i, blocks) ==
    IF i > Len(emails) THEN [exc |-> "none", val |-> blocks]
    ELSE LET when == format_date(emails[i].date) IN
         IF when.exc # "none" THEN when
         ELSE ItemBlocks(emails, i + 1,
                blocks \o <<[type |-> "divider"],
                            [type |-> "section",
                             mrkdwn |-> Str("*") \o Format(emails[i].subject) \o Str("*")],
                            [type |-> "section",
                             fields |-> <<when.val, emails[i].from_>>],
                            [type |-> "section", plain_text |-> emails[i].summary]>>)

\* generate_payload
generate_payload(emails) ==
    LET blocks == ItemBlocks(emails, 1, <<Header>>) IN
    IF blocks.exc # "none" THEN blocks
    ELSE [exc |-> "none", val |-> [blocks |-> blocks.val]]

\* send_error_message: the payload posted
error_payload(error) == [text |-> Str("Error: ") \o error]

\* error_or_default that never finds the error
error_or_default_lost(error) == Str("no error contained")

\* message.error or "no error contained"
error_or_default(error) ==
    IF IsStr(error) /\ error.str # <<>> THEN error.str ELSE Str("no error contained")

\* bool(message.success)
Truthy(v) ==
    IF "bool" \in DOMAIN v THEN v.bool
    ELSE IF "none" \in DOMAIN v THEN FALSE
    ELSE IF "int" \in DOMAIN v THEN v.int # 0
    ELSE IF "str" \in DOMAIN v THEN v.str # <<>>
    ELSE IF "list" \in DOMAIN v THEN v.list # <<>>
    ELSE v.dict # <<>>

\* what one invocation of the notification handler did
NotifyRun(status, exc, received, message, posted) ==
    [status |-> status, exc |-> exc, received |-> received, message |-> message,
     posted |-> posted]

\* send_email_summaries: the payload is generated, then posted
send_email_summaries(received, message, payload) ==
    IF payload.exc # "none"
    THEN NotifyRun("raised", payload.exc, received, message, <<>>)
    ELSE NotifyRun("returned", "none", received, message, <<payload.val>>)

\* lambda_handler of slack_notification after Message.from_dict
notify_message(received, message) ==
    IF message.exc # "none"
    THEN NotifyRun("raised", message.exc, received, NoMessage, <<>>)
    ELSE IF Truthy(message.val.success)
    THEN send_email_summaries(received, message.val, generate_payload(message.val.emails))
    ELSE NotifyRun("returned", "none", received, message.val,
                   <<error_payload(error_or_default(message.val.error))>>)

\* json.loads(record.sns.message), then Message.from_dict
message_from_json(doc) == IF doc.exc # "none" THEN doc ELSE from_dict(doc.val)

\* lambda_handler of slack_notification for the one record of an SNS event
notify_handler(sns_message) ==
    notify_message(sns_message, message_from_json(json_loads(sns_message)))

---------------------------------------------------------------------------
(* Inputs *)

MaxParts == 2
MaxBatch == 2
MaxItems == 2

\* all sequences over S of length lo..hi
SeqsOf(S, lo, hi) == UNION {[1..n -> S] : n \in lo..hi}

Leaf(ctype, charset, payload) ==
    [ctype |-> ctype, charset |-> charset, payload |-> payload, parts |-> <<>>]
Multi(ctype, parts) ==
    [ctype |-> ctype, charset |-> "none", payload |-> <<>>, parts |-> parts]

PlainText == Str("hello")
HtmlHi == <<Tag("p"), Ch("hi"), Tag("/p")>>
HtmlBye == <<Tag("div"), Ch("good"), Tag("br/"), Ch("bye"), Tag("/div")>>

PlainPart == Leaf("text/plain", "utf-8", PlainText)
HtmlPart == Leaf("text/html", "utf-8", HtmlHi)
OtherPart == Leaf("application/pdf", "none", Str("%PDF"))

\* the parts a multipart message is built of: text parts with and without a
\* charset parameter, an attachment, and nested multiparts
PartChoices ==
    { PlainPart,
      Leaf("text/plain", "none", PlainText),
      HtmlPart,
      Leaf("text/html", "utf-8", HtmlBye),
      OtherPart,
      Multi("multipart/alternative", <<PlainPart, HtmlPart>>),
      Multi("multipart/related", <<Leaf("text/html", "utf-8", HtmlBye), OtherPart>>) }

Structures ==
    {p \in PartChoices : p.parts = <<>>}
    \cup {Multi("multipart/mixed", ps) : ps \in SeqsOf(PartChoices, 1, MaxParts)}

NoDate == [none |-> TRUE]
\* Date headers: one of the configured zone, one that falls on the next local day
DateChoices ==
    { [year |-> 2024, month |-> 1, day |-> 1, hour |-> 10, offset |-> timezone],
      [year |-> 2024, month |-> 1, day |-> 9, hour |-> 20, offset |-> 0],
      NoDate }

RawMessage(date, structure) ==
    [date |-> date, subject |-> PyStr(Str("hi")), from_ |-> PyStr(Str("x@example.com")),
     ctype |-> structure.ctype, charset |-> structure.charset,
     payload |-> structure.payload, parts |-> structure.parts]

RawMessages == {RawMessage(d, s) : d \in DateChoices, s \in Structures}

GoodDate == [year |-> 2024, month |-> 1, day |-> 1, hour |-> 10, offset |-> timezone]
\* the messages the other ids of a batch hold: well-formed ones, one without
\* a Date header and one without a text body
OtherMessages ==
    [b : {RawMessage(GoodDate, PlainPart), RawMessage(NoDate, PlainPart)},
     c : {RawMessage(GoodDate, HtmlPart), RawMessage(GoodDate, OtherPart)}]

\* the ids of event.records
Batches == SeqsOf(MessageIds, 1, MaxBatch)

\* an Email as read_email builds it, for the stored partitions
StoredEmail(id, day) ==
    [id |-> Str(id), subject |-> PyStr(Str("hi")), from_ |-> PyStr(Str("x@example.com")),
     date |-> [year |-> 2024, month |-> 1, day |-> day, hour |-> 10, offset |-> timezone],
     body |-> PlainText]

RECURSIVE WriteAll(_, _)
\* write_email for every Email of a set
WriteAll(objects, emails) ==
    IF emails = {} THEN objects
    ELSE LET e == CHOOSE e \in emails : TRUE IN
         WriteAll(write_email(objects, e), emails \ {e})

\* where each id is stored: nowhere (0), or under day 1 of January, and for
\* one id also under day 10
Placements == {w \in [MessageIds -> {0, 1, 10}] : w["a"] # 10 /\ w["b"] # 10}

\* the invocations of the summarization handler: the schedule on the day
\* after day 1 or day 10, or a manual run over a given prefix
Events ==
    { [now |-> [year |-> 2024, month |-> 1, day |-> d, hour |-> 0, offset |-> timezone]] :
        d \in {2, 11} }
    \cup { [path_override |->
               Path(json_email_path \o Str("/") \o Digits(2024) \o Str("/") \o Digits(1))
               \o Str("/")] }

Obj(subject, date, from_, summary) ==
    PyDict(<< <<Str("subject"), subject>>, <<Str("date"), date>>,
              <<Str("from"), from_>>, <<Str("summary"), summary>> >>)

\* what the model may return as one array element: summaries (with an ISO
\* date; with a free-text date and an extra key; with values that are no
\* strings), an object that lacks a field, and values that are no objects
ElementChoices ==
    { Obj(PyStr(Str("s1")), PyStr(isoformat(GoodDate)), PyStr(Str("x")), PyStr(Str("m1"))),
      PyDict(<< <<Str("note"), PyStr(Str("n"))>>, <<Str("summary"), PyStr(Str("m2"))>>,
                <<Str("from"), PyStr(Str("y"))>>, <<Str("date"), PyStr(Str("yesterday"))>>,
                <<Str("subject"), PyStr(Str("s2"))>> >>),
      Obj(PyInt(1), PyNone, PyList(<<>>), PyBool(TRUE)),
      PyDict(<< <<Str("subject"), PyStr(Str("s4"))>>, <<Str("date"), PyStr(Str("d"))>>,
                <<Str("from"), PyStr(Str("x"))>> >>),
      PyInt(1),
      PyList(<<PyStr(Str("subject"))>>) }

\* the replies of the model: a JSON array of up to MaxItems elements, whole,
\* cut before its closing bracket, or followed by more text; or free text
Replies ==
    [elements : SeqsOf(ElementChoices, 0, MaxItems), form : {"whole", "cut", "more"}]
    \cup {[elements |-> <<>>, form |-> "free"]}

\* the completion: the text of the reply after the "[" the request ends with
Completion(reply) ==
    LET text == Tail(json_dumps(PyList(reply.elements))) IN
    IF reply.form = "whole" THEN text
    ELSE IF reply.form = "cut" THEN SubSeq(text, 1, Len(text) - 1)
    ELSE IF reply.form = "more" THEN text \o Str("Hope this helps")
    ELSE <<Ch("{"), Ch("bad json")>>

---------------------------------------------------------------------------
(* The state machine *)

\* no invocation yet
Idle == [status |-> "idle"]
ParserIdle ==
    [status |-> "idle", exc |-> "none", records |-> <<>>, written |-> <<>>, before |-> {}]
AnalyzeIdle == AnalyzeRun("idle", "none", <<>>, <<>>, 0, <<>>, NoMessage, <<>>)
NotifyIdle == NotifyRun("idle", "none", <<>>, NoMessage, <<>>)

\* the extraction handler has raw messages to parse; nothing else has run
InitParser ==
    /\ \E m \in RawMessages, o \in OtherMessages :
         bucket = { [key |-> raw_key("a"), body |-> m],
                    [key |-> raw_key("b"), body |-> o.b],
                    [key |-> raw_key("c"), body |-> o.c] }
    /\ parser = ParserIdle
    /\ model = Idle
    /\ analyze = AnalyzeIdle
    /\ topic = <<>>
    /\ notify = NotifyIdle
    /\ slack = <<>>

\* the bucket holds the partitions earlier extractions wrote
InitSummary ==
    /\ \E where \in Placements :
         bucket = WriteAll({}, {StoredEmail(id, where[id]) :
                                   id \in {i \in MessageIds : where[i] # 0}})
    /\ parser = ParserIdle
    /\ model = Idle
    /\ analyze = AnalyzeIdle
    /\ topic = <<>>
    /\ notify = NotifyIdle
    /\ slack = <<>>

\* SES invokes the extraction handler with a batch of records
EmailParser ==
    /\ parser.status = "idle"
    /\ \E records \in Batches :
         LET run == ParseRecords(bucket, records, 1, <<>>) IN
         /\ bucket' = run.objects
         /\ parser' = [status |-> run.status, exc |-> run.exc, records |-> records,
                       written |-> run.written, before |-> bucket]
    /\ UNCHANGED <<model, analyze, topic, notify, slack>>

\* the schedule (or an operator) invokes the summarization handler
AnalyzeEmails ==
    /\ analyze.status = "idle"
    /\ \E event \in Events, reply \in Replies :
         LET run == analyze_handler(bucket, event, Completion(reply)) IN
         /\ model' = IF run.model_calls = 0 THEN Idle
                      ELSE [status |-> "replied", reply |-> reply]
         /\ analyze' = run
         /\ topic' = topic \o run.published
    /\ UNCHANGED <<bucket, parser, notify, slack>>

\* SNS delivers the oldest published message to the notification handler
SlackNotification ==
    /\ topic # <<>>
    /\ LET run == notify_handler(Head(topic)) IN
         /\ notify' = run
         /\ slack' = slack \o run.posted
    /\ topic' = Tail(topic)
    /\ UNCHANGED <<bucket, parser, model, analyze>>

NextParser == EmailParser
NextSummary == AnalyzeEmails \/ SlackNotification

SpecParser == InitParser /\ [][NextParser]_vars
SpecSummary == InitSummary /\ [][NextSummary]_vars

---------------------------------------------------------------------------
(* Properties *)

\* the stored objects under a prefix
Listed(path) == {o \in bucket : IsPrefix(path, o.key)}

RequiredFields == {Str("subject"), Str("date"), Str("from"), Str("summary")}

\* an array element that is an object carrying the four required fields
WellFormedElement(e) == IsDict(e) /\ \A k \in RequiredFields : DictHas(e.dict, k)

\* a reply that is a whole JSON array of well-formed elements
WellFormedReply(reply) ==
    /\ reply.form = "whole"
    /\ \A i \in 1..Len(reply.elements) : WellFormedElement(reply.elements[i])

\* the text request_message parses: the "[" prefix and the completion
Reconstructed(reply) == Str("[") \o Completion(reply)

Contains(s, sub) ==
    \E i \in 0..(Len(s) - Len(sub)) : SubSeq(s, i + 1, i + Len(sub)) = sub

IsFailure(message) == message # NoMessage /\ ~message.success

\* the outcomes published so far: those in flight and the one delivered
PublishedCount == Len(topic) + (IF notify.status = "idle" THEN 0 ELSE 1)

\* C1: for every completion whose reconstructed text is no JSON, or has an
\* array element that lacks a required field or is no object, request_message
\* returns Failure with no items and the reason "Failed to parse response: "
\* followed by the whole reconstructed text, and never raises.
C1_IllFormedReplyIsFailure ==
    (model.status = "replied" /\ ~WellFormedReply(model.reply)) =>
        /\ analyze.status = "returned"
        /\ analyze.message =
             Message(FALSE, <<>>,
                     PyStr(Str("Failed to parse response: ")
                           \o Reconstructed(model.reply)))

\* C2: when the listed day partition holds no record, the summarization
\* handler completes as a no-op: no model call, nothing published, no error.
C2_EmptyDayIsNoOp ==
    (analyze.status # "idle" /\ Listed(analyze.path) = {}) =>
        /\ analyze.status = "returned"
        /\ analyze.model_calls = 0
        /\ PublishedCount = 0

\* an outcome that is to be published: a Failure, or a Success with items
Reportable(message) ==
    message # NoMessage /\ (~message.success \/ message.emails # <<>>)

\* C3: in every run over a non-empty day, an outcome is published if and only
\* if it is a Failure or a Success with at least one item, and at most one
\* outcome is published per run.
C3_PublishedIffReportable ==
    (analyze.status # "idle" /\ Listed(analyze.path) # {}) =>
        /\ PublishedCount = (IF Reportable(analyze.message) THEN 1 ELSE 0)
        /\ Len(analyze.published) = PublishedCount
        /\ Reportable(analyze.message) =>
             json_loads(analyze.published[1]) =
               [exc |-> "none", val |-> asdict(analyze.message)]

\* C3 witness: the completion "]" over a non-empty day gives Success without
\* items, and nothing is published.
C3_Witness ==
    /\ model.status = "replied"
    /\ Reconstructed(model.reply) = <<Ch("["), Ch("]")>>
    /\ analyze.status = "returned"
    /\ analyze.message = Message(TRUE, <<>>, PyNone)
    /\ Listed(analyze.path) # {}
    /\ PublishedCount = 0

\* C4: every message of a batch that can be extracted is extracted and
\* written to the store, whatever its position relative to a message of the
\* same batch that fails extraction.
C4_FailuresIsolated ==
    parser.status # "idle" =>
        \A i \in 1..Len(parser.records) :
            LET email == read_email(parser.before, parser.records[i], timezone) IN
            email.exc = "none" =>
                [key |-> email_key(email.val), body |-> email_json(email.val)] \in bucket

\* C5: the day listing returns every record stored under the day's prefix,
\* however many there are.
C5_ListingComplete ==
    (analyze.status # "idle" /\ analyze.model_calls = 1) =>
        Len(analyze.emails) = Cardinality(Listed(analyze.path))

\* the four fields of an array element, as an EmailSummary
SummaryOf(e) ==
    [subject |-> DictGet(e.dict, Str("subject")), date |-> DictGet(e.dict, Str("date")),
     from_ |-> DictGet(e.dict, Str("from")), summary |-> DictGet(e.dict, Str("summary"))]

\* C6: for every completion whose reconstructed text is a JSON array of
\* objects each carrying the four fields, request_message returns Success
\* whose items have the length and order of the array and the elements' field
\* values; the empty array gives Success without items.
C6_WellFormedReplyIsSuccess ==
    (model.status = "replied" /\ WellFormedReply(model.reply)) =>
        /\ analyze.status = "returned"
        /\ analyze.message =
             Message(TRUE,
                     [i \in 1..Len(model.reply.elements) |->
                         SummaryOf(model.reply.elements[i])],
                     PyNone)

\* C6 witness: an array of two different well-formed objects was summarized.
C6_Witness ==
    /\ model.status = "replied"
    /\ WellFormedReply(model.reply)
    /\ Len(model.reply.elements) = 2
    /\ model.reply.elements[1] # model.reply.elements[2]
    /\ analyze.message # NoMessage
    /\ analyze.message.success
    /\ Len(analyze.message.emails) = 2
    /\ analyze.message.emails[1] # analyze.message.emails[2]

\* the keys of a published payload name exactly one alternative
PayloadTagged(text) ==
    LET doc == json_loads(text) IN
    /\ doc.exc = "none"
    /\ IsDict(doc.val)
    /\ DictHas(doc.val.dict, Str("success"))
    /\ LET keys == {doc.val.dict[j][1] : j \in 1..Len(doc.val.dict)} IN
       IF DictGet(doc.val.dict, Str("success")) = PyBool(TRUE)
       THEN keys = {Str("success"), Str("emails")}
       ELSE /\ DictGet(doc.val.dict, Str("success")) = PyBool(FALSE)
            /\ keys = {Str("success"), Str("error")}
            /\ IsStr(DictGet(doc.val.dict, Str("error")))

\* C7: every outcome the summarizer constructs and every payload it publishes
\* carries exactly one alternative: success with emails and no error, or
\* failure with an error and no emails.
C7_ExactlyOneAlternative ==
    /\ analyze.status # "idle" /\ analyze.message # NoMessage =>
         IF analyze.message.success
         THEN analyze.message.error = PyNone
         ELSE analyze.message.emails = <<>> /\ IsStr(analyze.message.error)
    /\ \A i \in 1..Len(topic) : PayloadTagged(topic[i])
    /\ notify.status # "idle" => PayloadTagged(notify.received)

\* C7 witness: a Failure payload is in flight.
C7_Witness ==
    /\ IsFailure(analyze.message)
    /\ Len(topic) = 1
    /\ json_loads(topic[1]).exc = "none"
    /\ DictGet(json_loads(topic[1]).val.dict, Str("success")) = PyBool(FALSE)

RECURSIVE Leaves(_)
\* the parts of a message that are no multiparts, in declaration order
Leaves(parts) ==
    IF parts = <<>> THEN <<>>
    ELSE (IF Head(parts).parts = <<>> THEN <<Head(parts)>> ELSE Leaves(Head(parts).parts))
         \o Leaves(Tail(parts))

\* the text parts of a raw message, wherever they sit
TextLeaves(message) ==
    IF is_multipart(message)
    THEN SelectSeq(Leaves(message.parts), LAMBDA p : p.ctype \in {"text/plain", "text/html"})
    ELSE IF message.ctype \in {"text/plain", "text/html"}
    THEN <<[ctype |-> message.ctype, charset |-> message.charset,
            payload |-> message.payload, parts |-> <<>>]>>
    ELSE <<>>

\* the raw message of the first record of the batch
FirstRaw == get_object(parser.before, raw_key(parser.records[1]))

\* the first record of the batch was stored with this body
FirstStoredWith(body) ==
    /\ parser.written # <<>>
    /\ LET key == email_key([id |-> Str(parser.records[1]),
                             date |-> astimezone(FirstRaw.date, timezone)])
       IN \E o \in bucket :
            /\ o.key = key
            /\ email_from_json(o.body).exc = "none"
            /\ email_from_json(o.body).val.body = PyStr(body)

\* C8: for every raw message with a well-formed Date header and a text/plain
\* part, wherever that part sits and whatever HTML sibling comes before or
\* after it, extraction returns the text of the text/plain part.
C8_PlainTextWins ==
    parser.status # "idle" =>
        LET text == TextLeaves(FirstRaw) IN
        ("year" \in DOMAIN FirstRaw.date
         /\ \E i \in 1..Len(text) : text[i].ctype = "text/plain") =>
            FirstStoredWith(PlainText)

\* C9: for every multipart raw message whose text parts are all text/html,
\* extraction returns the stripped text of the last text/html part in
\* declaration order.
C9_LastHtmlWins ==
    parser.status # "idle" =>
        LET text == TextLeaves(FirstRaw) IN
        ("year" \in DOMAIN FirstRaw.date
         /\ is_multipart(FirstRaw)
         /\ text # <<>>
         /\ \A i \in 1..Len(text) : text[i].ctype = "text/html") =>
            FirstStoredWith(strip_html(text[Len(text)].payload))

\* C10: every published Failure outcome becomes exactly one plain-text alert
\* whose text contains the whole reason, never a structured message or a
\* drop, and the notifier reads the tag and the reason the summarizer wrote.
C10_FailureBecomesAlert ==
    IsFailure(analyze.message) =>
        /\ PublishedCount = 1
        /\ notify.status # "idle" =>
             /\ notify.status = "returned"
             /\ notify.message.success = PyBool(FALSE)
             /\ notify.message.emails = <<>>
             /\ notify.message.error = analyze.message.error
             /\ Len(slack) = 1
             /\ DOMAIN slack[1] = {"text"}
             /\ Contains(slack[1].text, analyze.message.error.str)

\* C10 witness: the completion "{bad json" was reported with the reason
\* "Failed to parse response: [{bad json".
C10_Witness ==
    /\ notify.status = "returned"
    /\ model.status = "replied"
    /\ model.reply.form = "free"
    /\ slack = <<[text |-> <<Ch("Error: "), Ch("Failed to parse response: "),
                             Ch("["), Ch("{"), Ch("bad json")>>]>>

\* the blocks of a rendered message for n items: the header, then per item a
\* divider, the subject, the date and sender fields, and the summary
RenderedInOrder(blocks, n) ==
    /\ Len(blocks) = 1 + 4 * n
    /\ blocks[1] = Header
    /\ \A k \in 1..n :
         /\ blocks[4 * k - 2] = [type |-> "divider"]
         /\ DOMAIN blocks[4 * k - 1] = {"type", "mrkdwn"}
         /\ DOMAIN blocks[4 * k] = {"type", "fields"}
         /\ Len(blocks[4 * k].fields) = 2
         /\ DOMAIN blocks[4 * k + 1] = {"type", "plain_text"}

\* C11: for every Success outcome the summarizer publishes (one or more
\* items, their values whatever JSON the model returned), generate_payload
\* never raises and returns the header block followed, per item in order, by
\* the divider, subject, date/sender and summary blocks.
C11_RenderingNeverRaises ==
    (/\ analyze.message # NoMessage
     /\ analyze.message.success
     /\ analyze.message.emails # <<>>
     /\ notify.status # "idle") =>
        /\ notify.status = "returned"
        /\ Len(slack) = 1
        /\ DOMAIN slack[1] = {"blocks"}
        /\ RenderedInOrder(slack[1].blocks, Len(analyze.message.emails))

\* the prefix the scheduled run lists for day d of January 2024
DayPartition(d) ==
    day_path([now |-> [year |-> 2024, month |-> 1, day |-> d + 1, hour |-> 0,
                       offset |-> timezone]])

\* write_email has stored the record of id under its local day d
Written(id, d) == \E o \in bucket : o.key = email_key(StoredEmail(id, d))

\* a listed record equal to the original in id, subject, sender, timestamp
\* and body
SameRecord(original, read) ==
    /\ read.id = PyStr(original.id)
    /\ read.subject = original.subject
    /\ read.from_ = original.from_
    /\ read.date = original.date
    /\ read.body = PyStr(original.body)

\* C12: after write_email(record), listing the partition of the record's
\* local year/month/day returns a record equal to the original in id,
\* subject, sender, timestamp and body, and a record is returned only by the
\* listing of its own local day (day 1 not for day 10, nor the reverse).
C12_RoundTripThroughStore ==
    \A d \in {1, 10} :
        (analyze.status # "idle" /\ analyze.path = DayPartition(d)) =>
            /\ \A id \in MessageIds :
                 Written(id, d) =>
                     \E i \in 1..Len(analyze.emails) :
                         SameRecord(StoredEmail(id, d), analyze.emails[i])
            /\ \A i \in 1..Len(analyze.emails) :
                 \E id \in MessageIds :
                     /\ Written(id, d)
                     /\ SameRecord(StoredEmail(id, d), analyze.emails[i])

=============================================================================
